---- MODULE Spec2Model ----
(***************************************************************************)
(* A model of dreamfield's glTF model subsystem                            *)
(* (dreamfield_renderer/src/gl_backend/gltf_model.rs): the import pipeline *)
(* (transform hierarchy, resource tables, scene builder) and the per-frame *)
(* render traversal.                                                       *)
(*                                                                         *)
(* Matrices are cgmath Matrix4 values, column major: m[c][r] is column c, *)
(* row r, exactly as the source indexes them.  Entries are integers (the   *)
(* sample matrices are translations, quarter turns and scalings, for which *)
(* f32 arithmetic is exact).                                               *)
(***************************************************************************)
EXTENDS Integers, Sequences, FiniteSets, TLC

VARIABLES
    doc,                  \* the (Document, buffer_data, image_data) tuple given to import
    pc,                   \* "start" | "imported" | "panicked"
    transforms,           \* the heap of Arc<Mutex<GltfTransform>> cells, by id
    transform_hierarchy,  \* GltfModel.transform_hierarchy: [root, nodes]
    drawables,            \* GltfModel.drawables
    lights,               \* GltfModel.lights
    animations,           \* GltfModel.animations: name -> animation
    textures,             \* the textures import loaded (held by the meshes)
    skins,                \* the Arc<Mutex<GltfSkin>> cells import loaded, by skin index
    last,                 \* the last operation: its arguments and what it returned,
                          \* wrote to the caller's parameter blocks and drew
    buffers,              \* GltfModel.buffers: the GL names of the buffers
    gl_names,             \* the GL context: how many buffer names it has handed out
    mutex,                \* for every transform cell, the thread inside its Mutex
    threads,              \* the render thread and the animation update: where each is
    host                  \* GameHost::run: its locals, the InputState and its position

vars == <<doc, pc, transforms, transform_hierarchy, drawables, lights,
          animations, textures, skins, last, buffers, gl_names, mutex, threads, host>>

-----------------------------------------------------------------------------
(* Bounds *)

\* the most nodes of a document given to import alone
MaxNodes == 3

\* the most nodes of a document that is imported and then edited and rendered
MaxRuntimeNodes == 2

\* the most textures an import-only document declares
MaxTextures == 2

\* the most window events one poll_events() yields
MaxEvents == 2

\* the most updates the fixed timestep asks for in one frame
MaxUpdates == 2

-----------------------------------------------------------------------------
(* cgmath::Matrix4<f32> *)

Dim == 0..3

\* the function f itself: TLC computes its values here, once, not at each use
Computed(f) == f @@ <<>>

Mat4(c0, c1, c2, c3) ==
    LET cols == <<c0, c1, c2, c3>>
    IN  Computed([c \in Dim |-> Computed([r \in Dim |-> cols[c + 1][r + 1]])])

Identity == Mat4(<<1, 0, 0, 0>>, <<0, 1, 0, 0>>, <<0, 0, 1, 0>>, <<0, 0, 0, 1>>)

Translation(x, y, z) ==
    Mat4(<<1, 0, 0, 0>>, <<0, 1, 0, 0>>, <<0, 0, 1, 0>>, <<x, y, z, 1>>)

\* a quarter turn about the z axis
RotZ == Mat4(<<0, 1, 0, 0>>, <<-1, 0, 0, 0>>, <<0, 0, 1, 0>>, <<0, 0, 0, 1>>)

\* a quarter turn about the x axis
RotX == Mat4(<<1, 0, 0, 0>>, <<0, 0, 1, 0>>, <<0, -1, 0, 0>>, <<0, 0, 0, 1>>)

Scale(s) == Mat4(<<s, 0, 0, 0>>, <<0, s, 0, 0>>, <<0, 0, s, 0>>, <<0, 0, 0, 1>>)

\* a * b
Mul(a, b) ==
    Computed([c \in Dim |-> Computed([r \in Dim |->
        a[0][r] * b[c][0] + a[1][r] * b[c][1] + a[2][r] * b[c][2] + a[3][r] * b[c][3]])])

Transpose(m) == Computed([c \in Dim |-> Computed([r \in Dim |-> m[r][c]])])

-----------------------------------------------------------------------------
(* Helpers *)

\* Option::None of a reference or an index (references and indices are >= 0)
None == -1

\* Option::None of a string-valued option (a filter, a light kind, raw extras)
Absent == "None"

RECURSIVE SortedSeq(_)
SortedSeq(S) ==
    IF S = {} THEN <<>>
    ELSE LET m == CHOOSE x \in S : \A y \in S : x <= y
         IN  <<m>> \o SortedSeq(S \ {m})

Range(s) == {s[i] : i \in DOMAIN s}

-----------------------------------------------------------------------------
(* gltf_transform: GltfTransform and GltfTransformHierarchy.               *)
(* A transform is a cell of the heap `transforms`; a reference to one     *)
(* (an Arc) is its position in that heap.                                  *)

\* GltfTransform::from_local(parent, local): a new cell, not yet computed
GltfTransform_from_local(parent, local) ==
    [parent |-> parent, local_transform |-> local,
     world_transform |-> Identity, dirty |-> TRUE]

\* GltfTransformHierarchy::new(): a root with the identity transform and no
\* parent, and no node registered
GltfTransformHierarchy_new ==
    [transforms |-> <<GltfTransform_from_local(None, Identity)>>,
     root |-> 1,
     nodes |-> [i \in {} |-> 0]]

\* GltfTransformHierarchy::add_at_index(index, transform)
add_at_index(nodes, index, transform) ==
    Computed([i \in DOMAIN nodes \cup {index} |->
                 IF i = index THEN transform ELSE nodes[i]])

\* GltfTransformHierarchy::node_by_index(index): absent when never inserted
node_by_index(hierarchy, index) ==
    IF index \in DOMAIN hierarchy.nodes THEN hierarchy.nodes[index] ELSE None

\* whether cell a is t or one of t's descendants in the heap
RECURSIVE InSubtree(_, _, _)
InSubtree(heap, t, a) ==
    IF a = t THEN TRUE
    ELSE IF heap[a].parent = None THEN FALSE
    ELSE InSubtree(heap, t, heap[a].parent)

\* GltfTransform::set_transform(m) on cell t: the local transform is replaced
\* and t and its whole subtree are marked dirty.  The cached value of a dirty
\* cell is never read; the model holds Identity in its place.
GltfTransform_set_transform(heap, t, m) ==
    Computed([a \in DOMAIN heap |->
        IF a = t
        THEN [heap[a] EXCEPT !.local_transform = m, !.dirty = TRUE,
                             !.world_transform = Identity]
        ELSE IF InSubtree(heap, t, a)
        THEN [heap[a] EXCEPT !.dirty = TRUE, !.world_transform = Identity]
        ELSE heap[a]])

\* GltfTransform::world_transform() on cell t: the cached value when clean;
\* otherwise parent.world_transform() * local, cached, and the flag cleared.
\* Yields the heap after the read and the value read.
RECURSIVE GltfTransform_world_transform(_, _)
GltfTransform_world_transform(heap, t) ==
    IF ~heap[t].dirty THEN [heap |-> heap, value |-> heap[t].world_transform]
    ELSE IF heap[t].parent = None
    THEN [heap |-> [heap EXCEPT ![t].world_transform = heap[t].local_transform,
                                ![t].dirty = FALSE],
          value |-> heap[t].local_transform]
    ELSE LET up == GltfTransform_world_transform(heap, heap[t].parent)
             w == Mul(up.value, heap[t].local_transform)
         IN  [heap |-> [up.heap EXCEPT ![t].world_transform = w, ![t].dirty = FALSE],
              value |-> w]

-----------------------------------------------------------------------------
(* GltfModel::import, step 2: the transform hierarchy *)

RECURSIVE build_hierarchy_recursive(_, _, _, _)
RECURSIVE build_hierarchy_children(_, _, _, _, _)

\* the loop `for child in node.children()` of build_hierarchy_recursive, from
\* the k-th child on
build_hierarchy_children(d, kids, k, parent, st) ==
    IF k > Len(kids) THEN st
    ELSE build_hierarchy_children(d, kids, k + 1, parent,
            build_hierarchy_recursive(d, kids[k], parent, st))

\* a slip: the children are linked to the node's parent, not to the node
build_hierarchy_recursive_flat(d, n, parent, st) ==
    LET transform == Len(st.transforms) + 1
        st1 == [st EXCEPT !.transforms =
                   Append(@, GltfTransform_from_local(parent, d.nodes[n].matrix))]
        st2 == build_hierarchy_children(d, d.nodes[n].children, 1, parent, st1)
    IN  [st2 EXCEPT !.nodes = add_at_index(@, n, transform)]

\* a slip: the parent's cell is registered under the node's index
build_hierarchy_recursive_parent(d, n, parent, st) ==
    LET transform == Len(st.transforms) + 1
        st1 == [st EXCEPT !.transforms =
                   Append(@, GltfTransform_from_local(parent, d.nodes[n].matrix))]
        st2 == build_hierarchy_children(d, d.nodes[n].children, 1, transform, st1)
    IN  [st2 EXCEPT !.nodes = add_at_index(@, n, parent)]

\* GltfModel::build_hierarchy_recursive.  st is the hierarchy being built:
\* the cells created so far and the index -> cell map.
build_hierarchy_recursive(d, n, parent, st) ==
    LET transform == Len(st.transforms) + 1
        st1 == [st EXCEPT !.transforms =
                   Append(@, GltfTransform_from_local(parent, d.nodes[n].matrix))]
        st2 == build_hierarchy_children(d, d.nodes[n].children, 1, transform, st1)
    IN  [st2 EXCEPT !.nodes = add_at_index(@, n, transform)]

\* the flattened `for scene in doc.scenes() { for node in scene.nodes() {..} }`:
\* every scene's root nodes, in order
SceneRoots(d) ==
    LET RECURSIVE Cat(_)
        Cat(k) == IF k > Len(d.scenes) THEN <<>> ELSE d.scenes[k] \o Cat(k + 1)
    IN  Cat(1)

\* import lines 102-114
build_transform_hierarchy(d) ==
    LET hierarchy == GltfTransformHierarchy_new
    IN  build_hierarchy_children(d, SceneRoots(d), 1, hierarchy.root, hierarchy)

-----------------------------------------------------------------------------
(* GltfModel::import, steps 3-7: the resource tables *)

\* a slip: the filter named after MIPMAP is kept in place of the one before it
de_mipmapify_suffix(filter) ==
    CASE filter = "NEAREST_MIPMAP_NEAREST" -> "NEAREST"
      [] filter = "LINEAR_MIPMAP_NEAREST" -> "NEAREST"
      [] filter = "NEAREST_MIPMAP_LINEAR" -> "LINEAR"
      [] filter = "LINEAR_MIPMAP_LINEAR" -> "LINEAR"
      [] OTHER -> filter

\* GltfModel::de_mipmapify
de_mipmapify(filter) ==
    CASE filter = "NEAREST_MIPMAP_NEAREST" -> "NEAREST"
      [] filter = "LINEAR_MIPMAP_NEAREST" -> "LINEAR"
      [] filter = "NEAREST_MIPMAP_LINEAR" -> "NEAREST"
      [] filter = "LINEAR_MIPMAP_LINEAR" -> "LINEAR"
      [] OTHER -> filter

\* `image_data[tex.source().index()]`: indexing past the end panics
ImageResolves(d, tex) == tex.source < d.image_count

\* GltfModel::load_texture, given that the image resolves
load_texture(d, tex) ==
    LET min_filter == IF tex.min_filter = Absent THEN "NEAREST" ELSE tex.min_filter
        mag_filter == IF tex.mag_filter = Absent THEN "NEAREST" ELSE tex.mag_filter
    IN  [source |-> tex.source,
         min_filter |-> de_mipmapify(min_filter),
         mag_filter |-> de_mipmapify(mag_filter),
         mipmaps |-> TRUE]

\* GltfSkin::load: every joint's transform is looked up by the joint's node
\* index; the inverse bind matrix is the declared one
GltfSkin_load(d, skin, hierarchy) ==
    [joints |-> [k \in DOMAIN skin.joints |->
        [transform |-> node_by_index(hierarchy, skin.joints[k].node),
         inverse_bind_matrix |-> skin.joints[k].inverse_bind_matrix]]]

\* whether every joint of the skin has a transform in the hierarchy
SkinResolves(skin, hierarchy) ==
    \A k \in DOMAIN skin.joints : node_by_index(hierarchy, skin.joints[k].node) # None

\* import lines 144-149: `.map(|anim| (anim.name().to_string(), anim)).collect()`
\* into a HashMap: of two entries with one key the later one stays
collect_animations(d) ==
    LET names == {d.animations[k].name : k \in DOMAIN d.animations}
    IN  [nm \in names |->
            LET k == CHOOSE k \in DOMAIN d.animations :
                        /\ d.animations[k].name = nm
                        /\ \A j \in DOMAIN d.animations :
                              d.animations[j].name = nm => j <= k
            IN  [name |-> nm, source |-> k - 1]]

-----------------------------------------------------------------------------
(* GltfModel::import, step 8: the scene builder *)

\* a slip: extras that do not parse give the default (unwrap_or_default)
ParseNodeExtras_lenient(raw) ==
    CASE raw = "{\"lighting_strength\":0.5}" ->
            [ok |-> TRUE, value |-> [lighting_strength |-> 5]]
      [] raw = "{\"lighting_strength\":2.0}" ->
            [ok |-> TRUE, value |-> [lighting_strength |-> 20]]
      [] OTHER -> [ok |-> TRUE, value |-> [lighting_strength |-> 10]]

\* serde_json::from_str::<GltfNodeExtras>(raw): a JSON object gives its
\* lighting_strength, or the serde default 1.0 when it has none; anything
\* else is an error.  lighting_strength is held in tenths.
ParseNodeExtras(raw) ==
    CASE raw = "{\"lighting_strength\":0.5}" ->
            [ok |-> TRUE, value |-> [lighting_strength |-> 5]]
      [] raw = "{\"lighting_strength\":2.0}" ->
            [ok |-> TRUE, value |-> [lighting_strength |-> 20]]
      [] raw = "{}" ->
            [ok |-> TRUE, value |-> [lighting_strength |-> 10]]
      [] raw = "{\"tag\":\"door\"}" ->
            [ok |-> TRUE, value |-> [lighting_strength |-> 10]]
      [] OTHER -> [ok |-> FALSE]

\* GltfNodeExtras::default()
GltfNodeExtras_default == [lighting_strength |-> 10]

RECURSIVE build_scene_recursive(_, _, _, _, _, _)
RECURSIVE build_scene_children(_, _, _, _, _, _, _)

\* the loop `for child in node.children()` of build_scene_recursive (and the
\* scene loop of import), from the k-th node on
build_scene_children(d, kids, k, hierarchy, tables, parent_extras, out) ==
    IF k > Len(kids) \/ out.panicked THEN out
    ELSE build_scene_children(d, kids, k + 1, hierarchy, tables, parent_extras,
            build_scene_recursive(d, kids[k], hierarchy, tables, parent_extras, out))

\* a slip: the children are handed the extras the node was handed, not the
\* node's own
build_scene_recursive_skip(d, n, hierarchy, tables, parent_extras, out) ==
    LET node == d.nodes[n]
        transform == node_by_index(hierarchy, n)
        node_extras == IF node.extras # Absent THEN node.extras ELSE parent_extras
        parsed == IF node_extras = Absent THEN [ok |-> TRUE, value |-> GltfNodeExtras_default]
                  ELSE ParseNodeExtras(node_extras)
        mesh_ok == node.mesh < Len(tables.meshes)
        skin_ok == node.skin = None \/ node.skin < Len(tables.skins)
        out1 ==
            IF node.mesh = None THEN out
            ELSE IF ~mesh_ok \/ ~skin_ok \/ ~parsed.ok
            THEN [out EXCEPT !.panicked = TRUE]
            ELSE [out EXCEPT !.drawables = Append(@,
                    [name |-> tables.meshes[node.mesh + 1].name,
                     mesh |-> tables.meshes[node.mesh + 1],
                     skin |-> node.skin,
                     transform |-> transform,
                     parsed_extras |-> parsed.value,
                     raw_extras |-> node_extras,
                     node |-> n])]
        out2 ==
            IF node.light = Absent \/ out1.panicked THEN out1
            ELSE [out1 EXCEPT !.lights = Append(@,
                    [transform |-> transform, light_type |-> node.light, node |-> n])]
    IN  build_scene_children(d, node.children, 1, hierarchy, tables, parent_extras, out2)

\* GltfModel::build_scene_recursive.  `out` is (out_drawables, out_lights) and
\* whether a panic has unwound the traversal; the field `node` of a drawable
\* or light records the document node it was made for.
build_scene_recursive(d, n, hierarchy, tables, parent_extras, out) ==
    LET node == d.nodes[n]
        transform == node_by_index(hierarchy, n)
        node_extras == IF node.extras # Absent THEN node.extras ELSE parent_extras
        parsed == IF node_extras = Absent THEN [ok |-> TRUE, value |-> GltfNodeExtras_default]
                  ELSE ParseNodeExtras(node_extras)
        mesh_ok == node.mesh < Len(tables.meshes)
        skin_ok == node.skin = None \/ node.skin < Len(tables.skins)
        out1 ==
            IF node.mesh = None THEN out
            ELSE IF ~mesh_ok \/ ~skin_ok \/ ~parsed.ok
            THEN [out EXCEPT !.panicked = TRUE]
            ELSE [out EXCEPT !.drawables = Append(@,
                    [name |-> tables.meshes[node.mesh + 1].name,
                     mesh |-> tables.meshes[node.mesh + 1],
                     skin |-> node.skin,
                     transform |-> transform,
                     parsed_extras |-> parsed.value,
                     raw_extras |-> node_extras,
                     node |-> n])]
        out2 ==
            IF node.light = Absent \/ out1.panicked THEN out1
            ELSE [out1 EXCEPT !.lights = Append(@,
                    [transform |-> transform, light_type |-> node.light, node |-> n])]
    IN  build_scene_children(d, node.children, 1, hierarchy, tables, node_extras, out2)

-----------------------------------------------------------------------------
(* GltfModel::import *)

\* a slip: the lists are not new ones, the ones of the model at hand are
\* appended to
build_scene_accumulate(d, hierarchy, tables) ==
    build_scene_children(d, SceneRoots(d), 1, hierarchy, tables, Absent,
        [drawables |-> drawables, lights |-> lights, panicked |-> FALSE])

\* the loop of import lines 156-160 over every scene's nodes
build_scene(d, hierarchy, tables) ==
    build_scene_children(d, SceneRoots(d), 1, hierarchy, tables, Absent,
        [drawables |-> <<>>, lights |-> <<>>, panicked |-> FALSE])

\* import lines 87-100: gl::GenBuffers hands out count names the context has
\* not handed out before
GenBuffers(names, count) == [k \in 1..count |-> names + k]

\* GltfModel::import((doc, buffer_data, image_data)).  The function has no
\* `Err` return: it ends in Ok(model) or in a panic (an index past the end of
\* a table, an unwrap of a failed parse).
import(d) ==
    LET hierarchy == build_transform_hierarchy(d)
        textures_ok == \A k \in DOMAIN d.textures : ImageResolves(d, d.textures[k])
        skins_ok == \A k \in DOMAIN d.skins : SkinResolves(d.skins[k], hierarchy)
        tables == [meshes |-> d.meshes,
                   skins |-> [k \in DOMAIN d.skins |-> GltfSkin_load(d, d.skins[k], hierarchy)]]
        scene == build_scene(d, hierarchy, tables)
    IN  IF ~textures_ok \/ ~skins_ok \/ scene.panicked
        THEN [status |-> "panic"]
        ELSE [status |-> "Ok",
              transforms |-> hierarchy.transforms,
              transform_hierarchy |-> [root |-> hierarchy.root, nodes |-> hierarchy.nodes],
              textures |-> [k \in DOMAIN d.textures |-> load_texture(d, d.textures[k])],
              skins |-> tables.skins,
              drawables |-> scene.drawables,
              lights |-> scene.lights,
              animations |-> collect_animations(d)]

-----------------------------------------------------------------------------
(* GltfModel::render *)

\* a slip: the indices of the cleared entries are the other way round
calc_billboard_matrix_rows(view_mat, model_mat, keep_upright) ==
    IF keep_upright THEN [panicked |-> TRUE]
    ELSE LET mat == [Transpose(view_mat) EXCEPT ![3][0] = 0, ![3][1] = 0, ![3][2] = 0]
         IN  [panicked |-> FALSE,
              value |-> [mat EXCEPT ![3][0] = model_mat[3][0],
                                    ![3][1] = model_mat[3][1],
                                    ![3][2] = model_mat[3][2]]]

\* GltfModel::calc_billboard_matrix; keep_upright panics
calc_billboard_matrix(view_mat, model_mat, keep_upright) ==
    IF keep_upright THEN [panicked |-> TRUE]
    ELSE LET mat == [Transpose(view_mat) EXCEPT ![0][3] = 0, ![1][3] = 0, ![2][3] = 0]
         IN  [panicked |-> FALSE,
              value |-> [mat EXCEPT ![3][0] = model_mat[3][0],
                                    ![3][1] = model_mat[3][1],
                                    ![3][2] = model_mat[3][2]]]

\* a slip: the product is taken in the other order
drawable_model_mat_swapped(heap, root, drawable, object_world_transform) ==
    LET own == IF drawable.transform = None THEN [heap |-> heap, value |-> Identity]
               ELSE GltfTransform_world_transform(heap, drawable.transform)
        fallback == GltfTransform_world_transform(own.heap, root)
        w == IF drawable.transform = None THEN fallback.value ELSE own.value
    IN  [heap |-> fallback.heap, value |-> Mul(w, object_world_transform)]

\* render lines 184-187: the drawable's node is read when it has one, and the
\* argument of unwrap_or, the root's world transform, is evaluated in any case
drawable_model_mat(heap, root, drawable, object_world_transform) ==
    LET own == IF drawable.transform = None THEN [heap |-> heap, value |-> Identity]
               ELSE GltfTransform_world_transform(heap, drawable.transform)
        fallback == GltfTransform_world_transform(own.heap, root)
        w == IF drawable.transform = None THEN fallback.value ELSE own.value
    IN  [heap |-> fallback.heap, value |-> Mul(object_world_transform, w)]

\* render lines 210-218: the joint loop, from the k-th joint on
RECURSIVE render_joints(_, _, _, _)
render_joints(st, joints, k, object_world_transform) ==
    IF k > Len(joints) THEN st
    ELSE LET joint == joints[k]
             read == GltfTransform_world_transform(st.heap, joint.transform)
             joint_world_transform == Mul(object_world_transform, read.value)
             joint_matrix == Mul(joint_world_transform, joint.inverse_bind_matrix)
             i == k - 1
         IN  render_joints(
                [st EXCEPT !.heap = read.heap,
                           !.ubo_joints.joints =
                               Computed([s \in DOMAIN @ \cup {i} |->
                                   IF s = i THEN joint_matrix ELSE @[s]])],
                joints, k + 1, object_world_transform)

\* a slip: the flag is left as it is for a drawable without a skin
render_drawable_sticky(st, root, skintable, drawable, k, object_world_transform) ==
    LET mesh == drawable.mesh
        model == drawable_model_mat(st.heap, root, drawable, object_world_transform)
        billboard == calc_billboard_matrix(st.ubo_global.mat_view, model.value,
                                           mesh.keep_upright)
    IN  IF mesh.is_billboard /\ billboard.panicked
        THEN [st EXCEPT !.heap = model.heap, !.panicked = TRUE]
        ELSE
        LET mat_model == IF mesh.is_billboard THEN billboard.value ELSE model.value
            st1 == [st EXCEPT !.heap = model.heap,
                              !.ubo_global.mat_model = mat_model,
                              !.ubo_global.lighting_strength =
                                  drawable.parsed_extras.lighting_strength]
            st2 == IF drawable.skin # None
                   THEN render_joints([st1 EXCEPT !.ubo_joints.skinning_enabled = TRUE],
                                      skintable[drawable.skin + 1].joints, 1,
                                      object_world_transform)
                   ELSE st1
        IN  [st2 EXCEPT !.draws = Append(@,
                [drawable |-> k,
                 mat_model |-> st2.ubo_global.mat_model,
                 lighting_strength |-> st2.ubo_global.lighting_strength,
                 skinning_enabled |-> st2.ubo_joints.skinning_enabled,
                 joints |-> st2.ubo_joints.joints])]

\* the body of the loop of render (lines 183-226) for one drawable; a
\* drawable's skin is its cell in skintable
render_drawable(st, root, skintable, drawable, k, object_world_transform) ==
    LET mesh == drawable.mesh
        model == drawable_model_mat(st.heap, root, drawable, object_world_transform)
        billboard == calc_billboard_matrix(st.ubo_global.mat_view, model.value,
                                           mesh.keep_upright)
    IN  IF mesh.is_billboard /\ billboard.panicked
        THEN [st EXCEPT !.heap = model.heap, !.panicked = TRUE]
        ELSE
        LET mat_model == IF mesh.is_billboard THEN billboard.value ELSE model.value
            st1 == [st EXCEPT !.heap = model.heap,
                              !.ubo_global.mat_model = mat_model,
                              !.ubo_global.lighting_strength =
                                  drawable.parsed_extras.lighting_strength]
            st2 == IF drawable.skin # None
                   THEN render_joints([st1 EXCEPT !.ubo_joints.skinning_enabled = TRUE],
                                      skintable[drawable.skin + 1].joints, 1,
                                      object_world_transform)
                   ELSE [st1 EXCEPT !.ubo_joints.skinning_enabled = FALSE]
        IN  [st2 EXCEPT !.draws = Append(@,
                [drawable |-> k,
                 mat_model |-> st2.ubo_global.mat_model,
                 lighting_strength |-> st2.ubo_global.lighting_strength,
                 skinning_enabled |-> st2.ubo_joints.skinning_enabled,
                 joints |-> st2.ubo_joints.joints])]

\* the loop `for drawable in self.drawables.iter()`, from the k-th on; a panic
\* ends it
RECURSIVE render_loop(_, _, _, _, _, _)
render_loop(st, root, skintable, ds, k, object_world_transform) ==
    IF k > Len(ds) \/ st.panicked THEN st
    ELSE render_loop(
            render_drawable(st, root, skintable, ds[k], k, object_world_transform),
            root, skintable, ds, k + 1, object_world_transform)

\* GltfModel::render(object_world_transform, ubo_global, ubo_joints, patches)
render(heap, hierarchy, skintable, ds, object_world_transform, global, joints) ==
    render_loop([heap |-> heap, ubo_global |-> global, ubo_joints |-> joints,
                 draws |-> <<>>, panicked |-> FALSE],
                hierarchy.root, skintable, ds, 1, object_world_transform)

\* a slip: the root's field is written in place, behind set_transform's back
GltfModel_set_transform_raw(heap, hierarchy, transform) ==
    [heap EXCEPT ![hierarchy.root].local_transform = transform]

\* a slip: the transform is applied on top of the current one
GltfModel_set_transform_accumulate(heap, hierarchy, transform) ==
    GltfTransform_set_transform(heap, hierarchy.root,
        Mul(heap[hierarchy.root].local_transform, transform))

\* GltfModel::set_transform(transform)
GltfModel_set_transform(heap, hierarchy, transform) ==
    GltfTransform_set_transform(heap, hierarchy.root, transform)

-----------------------------------------------------------------------------
(* Documents.  A document is what gltf::import hands to GltfModel::import  *)
(* after validation: every mesh, skin and image index of the document is   *)
(* in range, and image_data has one entry per image.  Its nodes form a      *)
(* forest; a scene lists root nodes; a root listed by no scene (parent -2)  *)
(* and its descendants are declared but not part of the scene graph.        *)

InScene == -1
Unlisted == -2

\* parent assignments of n nodes: a scene root, an unlisted root, or a node
\* of lower index
Parents(n) ==
    {par \in [0..(n - 1) -> Unlisted..(n - 2)] : \A i \in 0..(n - 1) : par[i] < i}

\* the local matrix the document declares for node i
LocalOf(i) ==
    CASE i = 0 -> Translation(1, 0, 0)
      [] i = 1 -> RotZ
      [] i = 2 -> Translation(0, 0, 2)
      [] OTHER -> Scale(2)

Meshes ==
    <<[name |-> "plain", is_billboard |-> FALSE, keep_upright |-> FALSE],
      [name |-> "sprite", is_billboard |-> TRUE, keep_upright |-> FALSE],
      [name |-> "upright", is_billboard |-> TRUE, keep_upright |-> TRUE]>>

\* a document of n nodes with parents par and per-node mesh, skin, light and
\* extras; scenes lists the roots once per scene
MakeDoc(n, par, mesh, skin, light, extras, nscenes, skintable, anims) ==
    [nodes |-> [i \in 0..(n - 1) |->
                  [children |-> SortedSeq({j \in 0..(n - 1) : par[j] = i}),
                   matrix |-> LocalOf(i),
                   mesh |-> mesh[i], skin |-> skin[i],
                   light |-> light[i], extras |-> extras[i]]],
     parent |-> par,
     scenes |-> [k \in 1..nscenes |-> SortedSeq({j \in 0..(n - 1) : par[j] = InScene})],
     meshes |-> Meshes,
     skins |-> skintable,
     textures |-> <<[source |-> 0, min_filter |-> "LINEAR_MIPMAP_LINEAR",
                     mag_filter |-> Absent]>>,
     image_count |-> 1,
     buffer_count |-> 1,
     animations |-> anims]

NoneAt(n) == [i \in 0..(n - 1) |-> Absent]

\* one skin whose joints are the first and the last node
SkinOver(n) ==
    <<[joints |-> <<[node |-> 0, inverse_bind_matrix |-> Translation(0, -1, 0)],
                    [node |-> n - 1, inverse_bind_matrix |-> RotX]>>]>>

\* the runtime documents.  "mixed": plain meshes on the even nodes, billboards
\* on the odd ones, a light on node 0; "upright": the last node carries the
\* keep-upright billboard; "skinned": node 0 carries a skinned mesh;
\* "skinfirst", "skinlast": every node carries a mesh, the first or the last
\* one a skinned one.
RuntimeDoc(n, par, p) ==
    MakeDoc(n, par,
            [i \in 0..(n - 1) |->
                CASE p = "mixed" -> i % 2
                  [] p = "upright" -> IF i = n - 1 THEN 2 ELSE 0
                  [] p = "skinned" -> IF i = 0 THEN 0 ELSE None
                  [] OTHER -> 0],
            [i \in 0..(n - 1) |->
                IF \/ p \in {"skinned", "skinfirst"} /\ i = 0
                   \/ p = "skinlast" /\ i = n - 1
                THEN 0 ELSE None],
            [i \in 0..(n - 1) |-> IF p = "mixed" /\ i = 0 THEN "Point" ELSE Absent],
            NoneAt(n), 1,
            IF p \in {"skinned", "skinfirst", "skinlast"} THEN SkinOver(n) ELSE <<>>,
            <<[name |-> "walk"]>>)

\* d is a runtime document: a mixed one of at most MaxRuntimeNodes nodes, or
\* an upright one or one with a skin of at most two
RuntimeDocs(d) ==
    \/ \E n \in 1..MaxRuntimeNodes : \E par \in Parents(n) :
          d = RuntimeDoc(n, par, "mixed")
    \/ \E n \in 1..2 : \E par \in Parents(n) :
          \E p \in {"upright", "skinned", "skinfirst", "skinlast"} :
              d = RuntimeDoc(n, par, p)

-----------------------------------------------------------------------------
(* The documents given to import alone *)

\* parent assignments of n nodes in any index order, without a cycle
RECURSIVE ReachesRoot(_, _, _)
ReachesRoot(par, i, fuel) ==
    IF par[i] < 0 THEN TRUE
    ELSE IF fuel = 0 THEN FALSE
    ELSE ReachesRoot(par, par[i], fuel - 1)

Forests(n) ==
    {par \in [0..(n - 1) -> Unlisted..(n - 1)] :
        \A i \in 0..(n - 1) : par[i] # i /\ ReachesRoot(par, i, n)}

\* every forest of at most MaxNodes nodes, listed by one scene or by two
\* scenes that share their roots; plain meshes on the even nodes
ShapeDocs(d) ==
    \E n \in 1..MaxNodes : \E par \in Forests(n), k \in 1..2 :
        d = MakeDoc(n, par, [i \in 0..(n - 1) |-> IF i % 2 = 0 THEN 0 ELSE None],
                    [i \in 0..(n - 1) |-> None], NoneAt(n), NoneAt(n), k, <<>>, <<>>)

\* the raw extras a node may carry; the last one is no GltfNodeExtras (its
\* lighting_strength is no number)
RawExtras ==
    {"{\"lighting_strength\":0.5}", "{\"lighting_strength\":2.0}", "{}",
     "{\"lighting_strength\":\"bright\"}"}

\* which nodes carry a mesh: every node, or the leaves
MeshPattern(n, par, q) ==
    [i \in 0..(n - 1) |->
        IF q = "leaves" /\ \E j \in 0..(n - 1) : par[j] = i THEN None ELSE 0]

\* every forest of at most MaxNodes nodes, all of them in the scene, with
\* every choice of extras
ExtrasDocs(d) ==
    \E n \in 1..MaxNodes :
        \E par \in {f \in Parents(n) : \A i \in 0..(n - 1) : f[i] # Unlisted},
           q \in {"all", "leaves"},
           extras \in [0..(n - 1) -> RawExtras \cup {Absent}] :
            d = MakeDoc(n, par, MeshPattern(n, par, q), [i \in 0..(n - 1) |-> None],
                        [i \in 0..(n - 1) |-> IF i = 0 THEN "Spot" ELSE Absent],
                        extras, 1, <<>>, <<>>)

\* the names of a document's animations, in order
AnimationNames ==
    {<<>>, <<"walk">>, <<"walk", "run">>, <<"walk", "walk">>, <<"run", "walk", "run">>}

AnimationDocs(d) ==
    \E names \in AnimationNames :
        d = MakeDoc(1, [i \in {0} |-> InScene], [i \in {0} |-> 0], [i \in {0} |-> None],
                    NoneAt(1), NoneAt(1), 1, <<>>,
                    [k \in DOMAIN names |-> [name |-> names[k]]])

\* two nodes, the second one in the scene or not, and a skin on the first
\* whose joints are any two of them
SkinDocs(d) ==
    \E q \in {InScene, 0, Unlisted}, a \in 0..1, b \in 0..1 :
        d = MakeDoc(2, [i \in 0..1 |-> IF i = 0 THEN InScene ELSE q],
                    [i \in 0..1 |-> IF i = 0 THEN 0 ELSE None],
                    [i \in 0..1 |-> IF i = 0 THEN 0 ELSE None], NoneAt(2), NoneAt(2), 1,
                    <<[joints |-> <<[node |-> a, inverse_bind_matrix |-> Identity],
                                    [node |-> b, inverse_bind_matrix |-> RotX]>>]>>,
                    <<>>)

\* the filters a sampler may ask for: gltf's MinFilter and MagFilter, or none
MinFilters ==
    {Absent, "NEAREST", "LINEAR", "NEAREST_MIPMAP_NEAREST", "LINEAR_MIPMAP_NEAREST",
     "NEAREST_MIPMAP_LINEAR", "LINEAR_MIPMAP_LINEAR"}

MagFilters == {Absent, "NEAREST", "LINEAR"}

\* one mesh node and at most MaxTextures textures with any samplers
TextureDocs(d) ==
    \E n \in 0..MaxTextures :
        \E mins \in [1..n -> MinFilters], mags \in [1..n -> MagFilters] :
            d = [MakeDoc(1, [i \in {0} |-> InScene], [i \in {0} |-> 0],
                         [i \in {0} |-> None], NoneAt(1), NoneAt(1), 1, <<>>, <<>>)
                 EXCEPT !.textures = [k \in 1..n |->
                            [source |-> 0, min_filter |-> mins[k], mag_filter |-> mags[k]]]]

ImportDocs(d) ==
    ShapeDocs(d) \/ ExtrasDocs(d) \/ AnimationDocs(d) \/ SkinDocs(d) \/ TextureDocs(d)

-----------------------------------------------------------------------------
(* The state machine *)

\* the matrices the owner may move the model to
RootMats == {Translation(0, 2, 0), RotX}

\* the matrices the animation update may set
JointMats == {RotX}

\* the object-world transforms and view matrices a frame may render with
ObjectMats == {Identity, RotZ}

ViewMats == {Identity, Mul(RotX, Translation(0, 0, -5))}

\* the parameter blocks a frame starts from
GlobalParams == [mat_view |-> Identity, mat_model |-> Identity, lighting_strength |-> 10]

JointParams == [skinning_enabled |-> FALSE, joints |-> [s \in {} |-> Identity]]

NoModel ==
    /\ transforms = <<>>
    /\ transform_hierarchy = [root |-> None, nodes |-> [i \in {} |-> 0]]
    /\ drawables = <<>>
    /\ lights = <<>>
    /\ animations = [nm \in {} |-> 0]
    /\ textures = <<>>
    /\ skins = <<>>
    /\ buffers = <<>>

\* before the import
Fresh ==
    /\ pc = "start"
    /\ NoModel
    /\ last = [op |-> "none"]
    /\ gl_names = 0
    /\ mutex = <<>>
    /\ threads = <<>>
    /\ host = <<>>

Init == RuntimeDocs(doc) /\ Fresh

\* GltfModel::from_buf / from_file: the document is imported
Import ==
    /\ pc = "start"
    /\ LET r == import(doc)
       IN  IF r.status = "panic"
           THEN /\ pc' = "panicked"
                /\ UNCHANGED <<transforms, transform_hierarchy, drawables, lights,
                               animations, textures, skins, buffers>>
           ELSE /\ pc' = "imported"
                /\ transforms' = r.transforms
                /\ transform_hierarchy' = r.transform_hierarchy
                /\ drawables' = r.drawables
                /\ lights' = r.lights
                /\ animations' = r.animations
                /\ textures' = r.textures
                /\ skins' = r.skins
                /\ buffers' = GenBuffers(gl_names, doc.buffer_count)
    /\ gl_names' = gl_names + doc.buffer_count
    /\ last' = [op |-> "import", result |-> IF pc' = "imported" THEN "Ok" ELSE "panic"]
    /\ UNCHANGED <<doc, mutex, threads, host>>

\* the owner of the model moves it: GltfModel::set_transform(m)
SetTransform ==
    /\ pc = "imported"
    /\ \E m \in RootMats :
        /\ transforms' = GltfModel_set_transform(transforms, transform_hierarchy, m)
        /\ last' = [op |-> "set_transform", transform |-> m]
    /\ UNCHANGED <<doc, pc, transform_hierarchy, drawables, lights, animations,
                   textures, skins>>
    /\ UNCHANGED <<buffers, gl_names, mutex, threads, host>>

\* the animation update sets the local transform of the node of a source index
Animate ==
    /\ pc = "imported"
    /\ \E i \in DOMAIN transform_hierarchy.nodes, m \in JointMats :
        /\ transforms' = GltfTransform_set_transform(transforms,
                                                     transform_hierarchy.nodes[i], m)
        /\ last' = [op |-> "animate", node |-> i]
    /\ UNCHANGED <<doc, pc, transform_hierarchy, drawables, lights, animations,
                   textures, skins>>
    /\ UNCHANGED <<buffers, gl_names, mutex, threads, host>>

\* a holder of a transform reference (a light's user, the animation update)
\* reads its world transform
ReadWorld ==
    /\ pc = "imported"
    /\ \E t \in DOMAIN transforms :
        LET read == GltfTransform_world_transform(transforms, t)
        IN  /\ transforms' = read.heap
            /\ last' = [op |-> "world_transform", transform |-> t]
    /\ UNCHANGED <<doc, pc, transform_hierarchy, drawables, lights, animations,
                   textures, skins>>
    /\ UNCHANGED <<buffers, gl_names, mutex, threads, host>>

\* a frame: the renderer sets the view matrix in the global block and calls
\* GltfModel::render
Render ==
    /\ pc = "imported"
    /\ \E o \in ObjectMats, v \in ViewMats :
        LET r == render(transforms, transform_hierarchy, skins, drawables, o,
                        [GlobalParams EXCEPT !.mat_view = v], JointParams)
        IN  /\ transforms' = r.heap
            /\ pc' = IF r.panicked THEN "panicked" ELSE "imported"
            /\ last' = [op |-> "render", object_world_transform |-> o,
                        ubo_global |-> r.ubo_global, ubo_joints |-> r.ubo_joints,
                        draws |-> r.draws,
                        result |-> IF r.panicked THEN "panic" ELSE "returned"]
    /\ UNCHANGED <<doc, transform_hierarchy, drawables, lights, animations, textures,
                   skins>>
    /\ UNCHANGED <<buffers, gl_names, mutex, threads, host>>

Next == Import \/ SetTransform \/ Animate \/ ReadWorld \/ Render

Spec == Init /\ [][Next]_vars

\* import alone, over the wider family of documents
InitImport == ImportDocs(doc) /\ Fresh

\* the same document is imported once more, into a second model; the first
\* one is kept
Reimport ==
    /\ pc = "imported"
    /\ last.op = "import"
    /\ LET r == import(doc)
       IN  last' = IF r.status = "panic" THEN [op |-> "reimport", result |-> "panic"]
                   ELSE [op |-> "reimport", result |-> "Ok",
                         drawables |-> Len(r.drawables),
                         lights |-> Len(r.lights),
                         names |-> DOMAIN r.animations,
                         buffers |-> GenBuffers(gl_names, doc.buffer_count)]
    /\ gl_names' = gl_names + doc.buffer_count
    /\ UNCHANGED <<doc, pc, transforms, transform_hierarchy, drawables, lights,
                   animations, textures, skins, buffers, mutex, threads, host>>

NextImport == Import \/ Reimport

SpecImport == InitImport /\ [][NextImport]_vars

\* calc_billboard_matrix alone: the inputs are drawn, the function is applied
BillboardViews ==
    {Identity, RotX, RotZ, Mul(RotX, RotZ), Translation(4, 5, 6),
     Mul(RotX, Translation(0, 0, -5)), Mul(Translation(1, 2, 3), RotZ), Scale(2),
     Mat4(<<1, 2, 3, 4>>, <<5, 6, 7, 8>>, <<9, 10, 11, 12>>, <<13, 14, 15, 16>>),
     Mat4(<<0, 0, 1, 7>>, <<1, 0, 0, 8>>, <<0, 1, 0, 9>>, <<3, 2, 1, 1>>)}

BillboardModels ==
    {Identity, Translation(1, 2, 0), Translation(-3, 0, 7), RotZ,
     Mul(Translation(2, 2, 2), RotX), Mul(RotZ, Translation(1, 0, 0)), Scale(3),
     Mat4(<<1, 2, 3, 4>>, <<5, 6, 7, 8>>, <<9, 10, 11, 12>>, <<13, 14, 15, 16>>)}

InitBillboard ==
    /\ \E n \in 1..2 : \E par \in Parents(n) : doc = RuntimeDoc(n, par, "mixed")
    /\ pc = "start"
    /\ NoModel
    /\ gl_names = 0
    /\ mutex = <<>>
    /\ threads = <<>>
    /\ host = <<>>
    /\ \E v \in BillboardViews, m \in BillboardModels, u \in BOOLEAN :
        last = [op |-> "inputs", view_mat |-> v, model_mat |-> m, keep_upright |-> u]

CalcBillboardMatrix ==
    /\ last.op = "inputs"
    /\ last' = [op |-> "calc_billboard_matrix", view_mat |-> last.view_mat,
                model_mat |-> last.model_mat, keep_upright |-> last.keep_upright,
                result |-> calc_billboard_matrix(last.view_mat, last.model_mat,
                                                 last.keep_upright)]
    /\ UNCHANGED <<doc, pc, transforms, transform_hierarchy, drawables, lights,
                   animations, textures, skins>>
    /\ UNCHANGED <<buffers, gl_names, mutex, threads, host>>

NextBillboard == CalcBillboardMatrix

SpecBillboard == InitBillboard /\ [][NextBillboard]_vars

-----------------------------------------------------------------------------
(* The render thread and the animation update on the shared transforms.    *)
(* Every transform is an Arc<Mutex<GltfTransform>>: a thread is inside a    *)
(* cell's mutex from lock() until the guard is dropped.  A read of a world  *)
(* transform is taken apart into its lock, the locks of the parents it      *)
(* asks, and its computation; a write of a local transform into its lock,   *)
(* the write of the first two and of the last two columns, and its unlock.  *)

\* a slip: no exclusion, a thread enters whoever is inside
Mutex_unguarded(mx, c) == TRUE

\* Mutex::lock returns when no thread is inside the mutex of cell c
Mutex_free(mx, c) == mx[c] = "free"

\* the transforms render reads for the drawables from the k-th on, in order:
\* the drawable's own (line 186), the root's (line 187, the argument of
\* unwrap_or), and every joint's of its skin (lines 210-212)
RECURSIVE RenderReads(_, _, _, _)
RenderReads(ds, skintable, root, k) ==
    IF k > Len(ds) THEN <<>>
    ELSE LET drawable == ds[k]
             own == IF drawable.transform = None THEN <<>> ELSE <<drawable.transform>>
             joints == IF drawable.skin = None THEN <<>>
                       ELSE [i \in DOMAIN skintable[drawable.skin + 1].joints |->
                                skintable[drawable.skin + 1].joints[i].transform]
         IN  own \o <<root>> \o joints \o RenderReads(ds, skintable, root, k + 1)

\* the threads before they start
ThreadsIdle ==
    [render |-> [pc |-> "idle", todo |-> <<>>, stack |-> <<>>,
                 has_ret |-> FALSE, ret |-> Identity,
                 has_got |-> FALSE, got |-> [target |-> None, value |-> Identity]],
     update |-> [pc |-> "idle", target |-> None, m |-> Identity, step |-> 0]]

\* what the threads leave alone
ModelUnchanged ==
    UNCHANGED <<doc, pc, transform_hierarchy, drawables, lights, animations,
                textures, skins, last, buffers, gl_names, host>>

\* a model with a skinned and an unskinned drawable has been imported; no
\* thread is inside a mutex
InitLocks ==
    /\ \E par \in Parents(2) : doc = RuntimeDoc(2, par, "skinfirst")
    /\ LET r == import(doc)
       IN  /\ r.status = "Ok"
           /\ pc = "imported"
           /\ transforms = r.transforms
           /\ transform_hierarchy = r.transform_hierarchy
           /\ drawables = r.drawables
           /\ lights = r.lights
           /\ animations = r.animations
           /\ textures = r.textures
           /\ skins = r.skins
           /\ mutex = [c \in DOMAIN r.transforms |-> "free"]
    /\ buffers = GenBuffers(0, doc.buffer_count)
    /\ gl_names = doc.buffer_count
    /\ last = [op |-> "import", result |-> "Ok"]
    /\ threads = ThreadsIdle
    /\ host = <<>>

\* GltfModel::render is called: a frame begins
RenderBegin ==
    /\ threads.render.pc = "idle"
    /\ threads' = [threads EXCEPT
            !.render.pc = "frame",
            !.render.todo = RenderReads(drawables, skins, transform_hierarchy.root, 1)]
    /\ UNCHANGED <<transforms, mutex>>
    /\ ModelUnchanged

\* `t.lock().unwrap()` for the next transform render reads; after the last
\* one the frame is over
RenderLock ==
    /\ threads.render.pc = "frame"
    /\ threads.render.stack = <<>>
    /\ IF threads.render.todo = <<>>
       THEN /\ threads' = [threads EXCEPT !.render.pc = "idle"]
            /\ UNCHANGED mutex
       ELSE LET t == Head(threads.render.todo)
            IN  /\ Mutex_free(mutex, t)
                /\ mutex' = [mutex EXCEPT ![t] = "render"]
                /\ threads' = [threads EXCEPT !.render.stack = <<t>>,
                                              !.render.has_ret = FALSE]
    /\ UNCHANGED transforms
    /\ ModelUnchanged

\* world_transform() of a dirty cell with a parent asks the parent: the
\* parent's mutex is locked while the thread is inside the cell's own
RenderAscend ==
    /\ threads.render.stack # <<>>
    /\ LET c == threads.render.stack[Len(threads.render.stack)]
           parent == transforms[c].parent
       IN  /\ transforms[c].dirty
           /\ parent # None
           /\ ~threads.render.has_ret
           /\ Mutex_free(mutex, parent)
           /\ mutex' = [mutex EXCEPT ![parent] = "render"]
           /\ threads' = [threads EXCEPT !.render.stack = Append(@, parent)]
    /\ UNCHANGED transforms
    /\ ModelUnchanged

\* world_transform() of the innermost cell returns: the cached value of a
\* clean cell, else parent world * local, which is cached; the guard of the
\* cell is dropped
RenderCompute ==
    /\ threads.render.stack # <<>>
    /\ LET n == Len(threads.render.stack)
           c == threads.render.stack[n]
           cell == transforms[c]
           value == IF ~cell.dirty THEN cell.world_transform
                    ELSE IF cell.parent = None THEN cell.local_transform
                    ELSE Mul(threads.render.ret, cell.local_transform)
       IN  /\ ~cell.dirty \/ cell.parent = None \/ threads.render.has_ret
           /\ transforms' = [transforms EXCEPT ![c].world_transform = value,
                                               ![c].dirty = FALSE]
           /\ mutex' = [mutex EXCEPT ![c] = "free"]
           /\ threads' =
                IF n = 1
                THEN [threads EXCEPT !.render.stack = <<>>,
                                     !.render.todo = Tail(@),
                                     !.render.has_ret = FALSE,
                                     !.render.ret = Identity,
                                     !.render.has_got = TRUE,
                                     !.render.got = [target |-> c, value |-> value]]
                ELSE [threads EXCEPT !.render.stack = SubSeq(@, 1, n - 1),
                                     !.render.has_ret = TRUE,
                                     !.render.ret = value]
    /\ ModelUnchanged

\* the cells whose local transform is set from outside: the root by
\* GltfModel::set_transform, a node's by the animation update
WrittenCells ==
    {transform_hierarchy.root} \cup
        {transform_hierarchy.nodes[i] : i \in DOMAIN transform_hierarchy.nodes}

\* `lock().unwrap()` of the cell whose local transform is about to be set
UpdateLock ==
    /\ threads.update.pc = "idle"
    /\ \E t \in WrittenCells, m \in JointMats :
        /\ Mutex_free(mutex, t)
        /\ mutex' = [mutex EXCEPT ![t] = "update"]
        /\ threads' = [threads EXCEPT
                !.update = [pc |-> "writing", target |-> t, m |-> m, step |-> 0]]
    /\ UNCHANGED transforms
    /\ ModelUnchanged

\* set_transform(m) inside the mutex: the first two columns of the local
\* transform are written, then the last two and the dirty flags
UpdateWrite ==
    /\ threads.update.pc = "writing"
    /\ threads.update.step \in {0, 1}
    /\ LET t == threads.update.target
           m == threads.update.m
       IN  transforms' =
              IF threads.update.step = 0
              THEN [transforms EXCEPT ![t].local_transform =
                        Computed([col \in Dim |-> IF col <= 1 THEN m[col] ELSE @[col]])]
              ELSE GltfTransform_set_transform(transforms, t, m)
    /\ threads' = [threads EXCEPT !.update.step = @ + 1]
    /\ UNCHANGED mutex
    /\ ModelUnchanged

\* the guard is dropped
UpdateUnlock ==
    /\ threads.update.pc = "writing"
    /\ threads.update.step = 2
    /\ mutex' = [mutex EXCEPT ![threads.update.target] = "free"]
    /\ threads' = [threads EXCEPT !.update = ThreadsIdle.update]
    /\ UNCHANGED transforms
    /\ ModelUnchanged

NextLocks ==
    \/ RenderBegin \/ RenderLock \/ RenderAscend \/ RenderCompute
    \/ UpdateLock \/ UpdateWrite \/ UpdateUnlock

SpecLocks == InitLocks /\ [][NextLocks]_vars

-----------------------------------------------------------------------------
(* GameHost::run and GameHost::handle_window_event *)

\* GameHost::map_game_inputs_default
map_game_inputs_default(key) ==
    CASE key = "W" -> "CamForwards"
      [] key = "A" -> "CamStrafeLeft"
      [] key = "S" -> "CamBackwards"
      [] key = "D" -> "CamStrafeRight"
      [] key = "I" -> "CamLookUp"
      [] key = "J" -> "CamLookLeft"
      [] key = "K" -> "CamLookDown"
      [] key = "L" -> "CamLookRight"
      [] key = "Up" -> "CamLookUp"
      [] key = "Left" -> "CamLookLeft"
      [] key = "Down" -> "CamLookDown"
      [] key = "Right" -> "CamLookRight"
      [] key = "LeftShift" -> "Run"
      [] key = "E" -> "Use"
      [] key = "Space" -> "Jump"
      [] key = "Escape" -> "Pause"
      [] key = "U" -> "Debug"
      [] key = "F1" -> "EnableDiagnostics"
      [] OTHER -> Absent

\* GameHost::map_game_inputs_colemak
map_game_inputs_colemak(key) ==
    CASE key = "W" -> "CamForwards"
      [] key = "A" -> "CamStrafeLeft"
      [] key = "R" -> "CamBackwards"
      [] key = "S" -> "CamStrafeRight"
      [] key = "U" -> "CamLookUp"
      [] key = "N" -> "CamLookLeft"
      [] key = "E" -> "CamLookDown"
      [] key = "I" -> "CamLookRight"
      [] key = "Up" -> "CamLookUp"
      [] key = "Left" -> "CamLookLeft"
      [] key = "Down" -> "CamLookDown"
      [] key = "Right" -> "CamLookRight"
      [] key = "LeftShift" -> "Run"
      [] key = "F" -> "Use"
      [] key = "Space" -> "Jump"
      [] key = "Escape" -> "Pause"
      [] key = "F1" -> "EnableDiagnostics"
      [] OTHER -> Absent

\* the InputName values, the indices of InputState.inputs
InputNames ==
    {"CamForwards", "CamStrafeLeft", "CamBackwards", "CamStrafeRight", "CamLookUp",
     "CamLookLeft", "CamLookDown", "CamLookRight", "Run", "Use", "Jump", "Pause",
     "Debug", "EnableDiagnostics"}

\* the keys the user works
Keys == {"W", "S", "F9"}

\* GameHost::handle_window_event for a key event: h is the InputState and
\* colemak_mode.  The map function is chosen on entry; F9 pressed toggles the
\* layout; any other key pressed or released sets or clears its input.
\* first_seen counts, for the last press of an input, the updates that saw it
\* as just pressed.
handle_window_event(h, key, action) ==
    LET input == IF h.colemak_mode THEN map_game_inputs_colemak(key)
                 ELSE map_game_inputs_default(key)
    IN  IF key = "F9" /\ action = "Press"
        THEN [h EXCEPT !.colemak_mode = ~@]
        ELSE IF input = Absent THEN h
        ELSE IF action = "Press"
        THEN [h EXCEPT !.inputs[input] = TRUE, !.first_seen[input] = 0]
        ELSE [h EXCEPT !.inputs[input] = FALSE]

\* a slip: the last of the due updates is left for after the render
run_next_short(h) ==
    CASE h.pc = "head" -> IF h.should_close THEN "closed" ELSE "events"
      [] h.pc = "events" -> "time"
      [] h.pc = "time" -> "check"
      [] h.pc = "check" -> IF h.due > 1 THEN "update" ELSE "render"
      [] h.pc = "update" -> "save"
      [] h.pc = "save" -> "check"
      [] h.pc = "render" -> "swap"
      [] OTHER -> "head"

\* a slip: the old input states are not saved after an update
run_next_nosave(h) ==
    CASE h.pc = "head" -> IF h.should_close THEN "closed" ELSE "events"
      [] h.pc = "events" -> "time"
      [] h.pc = "time" -> "check"
      [] h.pc = "check" -> IF h.due > 0 THEN "update" ELSE "render"
      [] h.pc = "update" -> "check"
      [] h.pc = "save" -> "check"
      [] h.pc = "render" -> "swap"
      [] OTHER -> "head"

\* the control flow of GameHost::run (lines 69-123): the place after h.pc
run_next(h) ==
    CASE h.pc = "head" -> IF h.should_close THEN "closed" ELSE "events"
      [] h.pc = "events" -> "time"
      [] h.pc = "time" -> "check"
      [] h.pc = "check" -> IF h.due > 0 THEN "update" ELSE "render"
      [] h.pc = "update" -> "save"
      [] h.pc = "save" -> "check"
      [] h.pc = "render" -> "swap"
      [] OTHER -> "head"

\* what GameHost::run leaves alone
HostOthersUnchanged ==
    UNCHANGED <<doc, pc, transforms, transform_hierarchy, drawables, lights,
                animations, textures, skins, last, buffers, gl_names, mutex, threads>>

\* run() is about to enter its loop: no input is set, no key is down
InitHost ==
    /\ doc = RuntimeDoc(1, [i \in {0} |-> InScene], "mixed")
    /\ pc = "start"
    /\ NoModel
    /\ last = [op |-> "none"]
    /\ gl_names = 0
    /\ mutex = <<>>
    /\ threads = <<>>
    /\ host = [pc |-> "head",
               inputs |-> [i \in InputNames |-> FALSE],
               last_inputs |-> [i \in InputNames |-> FALSE],
               first_seen |-> [i \in InputNames |-> 0],
               colemak_mode |-> FALSE,
               should_close |-> FALSE,
               held |-> {},
               polled |-> 0,
               due |-> 0,
               planned |-> 0,
               log |-> <<>>]

\* `while !self.window.window.should_close()`: an iteration begins, or the
\* loop ends
HostHead ==
    /\ host.pc = "head"
    /\ host' = [host EXCEPT !.pc = run_next(host), !.log = <<>>, !.polled = 0]
    /\ HostOthersUnchanged

\* one event of poll_events() is handled (lines 74-76): a key that is up goes
\* down, or one that is down goes up
HostEvent ==
    /\ host.pc = "events"
    /\ host.polled < MaxEvents
    /\ \E key \in Keys :
        LET action == IF key \in host.held THEN "Release" ELSE "Press"
            h == handle_window_event(host, key, action)
        IN  host' = [h EXCEPT !.polled = @ + 1,
                              !.held = IF action = "Press" THEN @ \cup {key}
                                       ELSE @ \ {key}]
    /\ HostOthersUnchanged

\* the window is asked to close while its events are polled
HostCloseRequest ==
    /\ host.pc = "events"
    /\ ~host.should_close
    /\ host' = [host EXCEPT !.should_close = TRUE]
    /\ HostOthersUnchanged

\* the events of this frame are handled
HostEventsDone ==
    /\ host.pc = "events"
    /\ host' = [host EXCEPT !.pc = run_next(host), !.log = Append(@, "events")]
    /\ HostOthersUnchanged

\* fixed_timestep.update_actual_time (line 86): so many updates are due
HostTime ==
    /\ host.pc = "time"
    /\ \E n \in 0..MaxUpdates :
        host' = [host EXCEPT !.pc = run_next(host), !.due = n, !.planned = n]
    /\ HostOthersUnchanged

\* `while fixed_timestep.should_update()` (line 87), and the way to the render
HostCheck ==
    /\ host.pc = "check"
    /\ host' = [host EXCEPT !.pc = run_next(host)]
    /\ HostOthersUnchanged

\* update_schedule.run(&mut world) (lines 88-102): the systems see every input
\* that is set and was not set at the last save as just pressed
HostUpdate ==
    /\ host.pc = "update"
    /\ host' = [host EXCEPT
            !.pc = run_next(host),
            !.due = IF @ > 0 THEN @ - 1 ELSE 0,
            !.first_seen = [i \in InputNames |->
                IF host.inputs[i] /\ ~host.last_inputs[i] THEN @[i] + 1 ELSE @[i]],
            !.log = Append(@, "update")]
    /\ HostOthersUnchanged

\* lines 104-110: last_inputs[i] = inputs[i] for every i
HostSave ==
    /\ host.pc = "save"
    /\ host' = [host EXCEPT !.pc = run_next(host), !.last_inputs = host.inputs]
    /\ HostOthersUnchanged

\* render_schedule.run(&mut world) (line 115)
HostRender ==
    /\ host.pc = "render"
    /\ host' = [host EXCEPT !.pc = run_next(host), !.log = Append(@, "render")]
    /\ HostOthersUnchanged

\* swap_buffers() (line 117); a due update a frame did not run is run by a
\* later one
HostSwap ==
    /\ host.pc = "swap"
    /\ host' = [host EXCEPT !.pc = run_next(host), !.log = Append(@, "swap")]
    /\ HostOthersUnchanged

NextHost ==
    \/ HostHead \/ HostEvent \/ HostCloseRequest \/ HostEventsDone \/ HostTime
    \/ HostCheck \/ HostUpdate \/ HostSave \/ HostRender \/ HostSwap

SpecHost == InitHost /\ [][NextHost]_vars

-----------------------------------------------------------------------------
(* Properties *)

Root == transform_hierarchy.root

Nodes == transform_hierarchy.nodes

\* the cell the hierarchy should hold as parent of the cell of document node i
ParentCell(i) == IF doc.parent[i] < 0 THEN Root ELSE Nodes[doc.parent[i]]

\* the document nodes a scene reaches: the scene roots and, from there, the
\* children of reached nodes
RECURSIVE Closure(_)
Closure(S) ==
    LET more == S \cup UNION {Range(doc.nodes[i].children) : i \in S}
    IN  IF more = S THEN S ELSE Closure(more)

Reachable == Closure(Range(SceneRoots(doc)))

\* C1: whatever edits came before, a read of a node's world transform gives
\* the world transform then read of its parent, times the node's local
\* transform, and the root's is its local transform: no read is stale.
C1_WorldTransformNeverStale ==
    pc = "imported" =>
        /\ GltfTransform_world_transform(transforms, Root).value
              = transforms[Root].local_transform
        /\ \A i \in DOMAIN Nodes :
              LET node == GltfTransform_world_transform(transforms, Nodes[i])
                  up == GltfTransform_world_transform(node.heap, ParentCell(i))
              IN  node.value = Mul(up.value, transforms[Nodes[i]].local_transform)

\* C1 witness: the animation update has just edited a node whose child is
\* two levels below the root, after the owner moved the root
C1_WitnessEditedAncestors ==
    /\ pc = "imported"
    /\ last.op = "animate"
    /\ transforms[Root].local_transform = Translation(0, 2, 0)
    /\ \E i \in DOMAIN Nodes :
          /\ doc.parent[i] = last.node
          /\ transforms[Nodes[i]].dirty
          /\ ~transforms[Root].dirty

\* C2: right after GltfModel::set_transform(M) a read of the root's world
\* transform gives M.
C2_RootWorldIsWhatWasSet ==
    (pc = "imported" /\ last.op = "set_transform") =>
        GltfTransform_world_transform(transforms, Root).value = last.transform

\* C2 witness: the root is set for the second time, to a quarter turn, with
\* nodes below it
C2_WitnessRootSet ==
    /\ pc = "imported"
    /\ last.op = "set_transform"
    /\ last.transform = RotX
    /\ Len(transforms) > 2

\* C3 as claimed: after a successful import of a document of N nodes the map
\* has an entry for every index in [0, N), and no two entries share a cell.
C3_EveryDeclaredNodeHasAnEntry ==
    pc = "imported" =>
        /\ DOMAIN Nodes = DOMAIN doc.nodes
        /\ \A i, j \in DOMAIN Nodes : i # j => Nodes[i] # Nodes[j]

\* C3 amended: after a successful import the map has exactly one entry for
\* every node a scene reaches and none for any other index; every entry is a
\* cell of its own, other than the root.
C3_EveryReachableNodeHasAnEntry ==
    pc = "imported" =>
        /\ DOMAIN Nodes = Reachable
        /\ \A i \in DOMAIN Nodes : Nodes[i] \in DOMAIN transforms /\ Nodes[i] # Root
        /\ \A i, j \in DOMAIN Nodes : i # j => Nodes[i] # Nodes[j]

\* C3 witness: a document of three nodes, two of them siblings below one
\* root, all in the scene, has been imported
C3_WitnessAllListed ==
    /\ pc = "imported"
    /\ DOMAIN doc.nodes = 0..2
    /\ Reachable = 0..2
    /\ \E i, j \in 0..2 : i # j /\ doc.parent[i] >= 0 /\ doc.parent[i] = doc.parent[j]

\* whether the parent chain from cell a ends at the parentless root within
\* `fuel` steps
RECURSIVE ChainEndsAtRoot(_, _)
ChainEndsAtRoot(a, fuel) ==
    IF transforms[a].parent = None THEN a = Root
    ELSE IF fuel = 0 THEN FALSE
    ELSE ChainEndsAtRoot(transforms[a].parent, fuel - 1)

\* C4: after the traversal the cell of every document node has as parent the
\* cell of the node's document parent, or the root for a scene's top-level
\* node, and the parent chain of every cell ends at the parentless root
\* within as many steps as there are cells (so it revisits none).
C4_HierarchyIsATree ==
    pc = "imported" =>
        /\ transforms[Root].parent = None
        /\ \A i \in DOMAIN Nodes : transforms[Nodes[i]].parent = ParentCell(i)
        /\ \A a \in DOMAIN transforms : ChainEndsAtRoot(a, Len(transforms) - 1)

\* C4 witness: a chain of three nodes below the root has been built
C4_WitnessDeepChain ==
    /\ pc = "imported"
    /\ \E i, j, k \in DOMAIN Nodes :
          /\ doc.parent[k] = j /\ doc.parent[j] = i /\ doc.parent[i] = InScene
          /\ transforms[transforms[transforms[Nodes[k]].parent].parent].parent = Root

\* the raw extras in force at document node i: its own, else those of the
\* nearest ancestor that has any
RECURSIVE NearestExtras(_)
NearestExtras(i) ==
    IF doc.nodes[i].extras # Absent THEN doc.nodes[i].extras
    ELSE IF doc.parent[i] < 0 THEN Absent
    ELSE NearestExtras(doc.parent[i])

\* C5: the metadata of every drawable is that of its node if the node has
\* any, else that of the nearest ancestor that has any (with or without a
\* mesh), else lighting_strength 1.0; so it depends on the ancestor chain
\* alone, never on a sibling or a descendant.
C5_ExtrasComeFromTheAncestorChain ==
    pc = "imported" =>
        \A k \in DOMAIN drawables :
            LET raw == NearestExtras(drawables[k].node)
            IN  /\ drawables[k].raw_extras = raw
                /\ drawables[k].parsed_extras =
                      IF raw = Absent THEN [lighting_strength |-> 10]
                      ELSE ParseNodeExtras(raw).value

\* C5 witness: a drawable without extras of its own, below a parent that has
\* neither extras nor a mesh, takes 0.5 from its grandparent
C5_WitnessInheritedFromGrandparent ==
    /\ pc = "imported"
    /\ \E k \in DOMAIN drawables :
        LET i == drawables[k].node
            p == doc.parent[i]
        IN  /\ doc.nodes[i].extras = Absent
            /\ p >= 0
            /\ doc.nodes[p].extras = Absent
            /\ doc.nodes[p].mesh = None
            /\ doc.parent[p] >= 0
            /\ doc.nodes[doc.parent[p]].extras = "{\"lighting_strength\":0.5}"
            /\ drawables[k].parsed_extras.lighting_strength = 5

\* the world transform of cell a computed from the local transforms alone
RECURSIVE TrueWorld(_)
TrueWorld(a) ==
    IF transforms[a].parent = None THEN transforms[a].local_transform
    ELSE Mul(TrueWorld(transforms[a].parent), transforms[a].local_transform)

\* C6: the model matrix a frame writes for a drawable that is no billboard
\* is object_world_transform * W, W the world transform of the drawable's
\* node, or of the root when it has none.
C6_ModelMatrixIsObjectTimesWorld ==
    (pc = "imported" /\ last.op = "render") =>
        \A k \in DOMAIN last.draws :
            LET drawable == drawables[k]
                cell == IF drawable.transform = None THEN Root ELSE drawable.transform
            IN  ~drawable.mesh.is_billboard =>
                    last.draws[k].mat_model =
                        Mul(last.object_world_transform, TrueWorld(cell))

\* C6 witness: the root is at translate(0,2,0), a top-level mesh node at
\* translate(1,0,0), the object-world transform is the identity, and the
\* drawable is drawn at translation (1,2,0); and another frame has a
\* turned object-world transform
C6_WitnessScenario ==
    /\ pc = "imported"
    /\ last.op = "render"
    /\ last.object_world_transform = Identity
    /\ transforms[Root].local_transform = Translation(0, 2, 0)
    /\ \E k \in DOMAIN last.draws :
          /\ ~drawables[k].mesh.is_billboard
          /\ transforms[drawables[k].transform].parent = Root
          /\ transforms[drawables[k].transform].local_transform = Translation(1, 0, 0)
          /\ last.draws[k].mat_model = Translation(1, 2, 0)

\* C7: without keep_upright the billboard matrix has the transpose of the
\* view's upper-left 3x3 block, the model's translation, and nothing of the
\* view's translation (the entries the transpose moved it to are 0); for the
\* identity view it is the translation by the model's (x, y, z).
C7_BillboardIsTransposedViewAtModelTranslation ==
    (last.op = "calc_billboard_matrix" /\ ~last.keep_upright) =>
        /\ ~last.result.panicked
        /\ LET b == last.result.value
               v == last.view_mat
               m == last.model_mat
           IN  /\ \A c, r \in 0..2 : b[c][r] = v[r][c]
               /\ \A r \in 0..2 : b[3][r] = m[3][r]
               /\ \A c \in 0..2 : b[c][3] = 0
               /\ v = Identity => b = Translation(m[3][0], m[3][1], m[3][2])

\* C7 witness: a view that is turned and moved, a model that is moved
C7_WitnessMovedView ==
    /\ last.op = "calc_billboard_matrix"
    /\ ~last.keep_upright
    /\ last.view_mat = Mul(RotX, Translation(0, 0, -5))
    /\ last.model_mat = Translation(1, 2, 0)
    /\ last.result.value[3] = Translation(1, 2, 0)[3]
    /\ last.result.value[1][2] = -1

\* C8 as claimed: a frame that reaches a keep-upright billboard ends with a
\* ConfigurationError handed to the caller; the process goes on.
C8_UprightBillboardIsAnError ==
    (last.op = "render"
        /\ \E k \in DOMAIN drawables :
              drawables[k].mesh.is_billboard /\ drawables[k].mesh.keep_upright) =>
        /\ last.result = "ConfigurationError"
        /\ pc # "panicked"

\* C9 as claimed: the import of a document with two animations of one name
\* does not succeed.
C9_DuplicateAnimationNameFails ==
    (last.op = "import"
        /\ \E j, k \in DOMAIN doc.animations :
              j # k /\ doc.animations[j].name = doc.animations[k].name) =>
        last.result # "Ok"

\* C10 as claimed: the import of a document with a joint whose node has no
\* transform in the hierarchy hands a ReferenceError to the caller, and no
\* model.
C10_UnresolvedReferenceIsAnError ==
    (last.op = "import"
        /\ \E s \in DOMAIN doc.skins : \E k \in DOMAIN doc.skins[s].joints :
              doc.skins[s].joints[k].node \notin Reachable) =>
        /\ last.result = "ReferenceError"
        /\ NoModel


\* a document node whose mesh is given extras that are no GltfNodeExtras
TakesUnparsableExtras(i) ==
    /\ i \in Reachable
    /\ doc.nodes[i].mesh # None
    /\ NearestExtras(i) # Absent
    /\ NearestExtras(i) \notin
          {"{\"lighting_strength\":0.5}", "{\"lighting_strength\":2.0}", "{}"}

CarriesUnparsableExtras(i) ==
    /\ i \in Reachable
    /\ doc.nodes[i].extras = "{\"lighting_strength\":\"bright\"}"

\* C11 as claimed: the import of a document with a visited node whose extras
\* do not parse produces no model, whether or not a mesh takes the extras.
C11_UnparsableExtrasAlwaysFail ==
    (last.op = "import" /\ \E i \in DOMAIN doc.nodes : CarriesUnparsableExtras(i)) =>
        last.result # "Ok" /\ NoModel

\* C11 amended: the import produces no model when a visited mesh node takes
\* extras that do not parse (its own, or those it inherits); extras that no
\* mesh node takes are never parsed and do not stop the import.
C11_UnparsableExtrasFailWhenAMeshTakesThem ==
    (last.op = "import" /\ doc.skins = <<>>) =>
        IF \E i \in DOMAIN doc.nodes : TakesUnparsableExtras(i)
        THEN last.result = "panic" /\ NoModel
        ELSE last.result = "Ok" /\ pc = "imported"

\* C11 witness: a node without a mesh carries the unparsable extras, its
\* child carries a mesh and no extras, and the import has failed
C11_WitnessInheritedUnparsable ==
    /\ last.op = "import"
    /\ last.result = "panic"
    /\ \E i \in DOMAIN doc.nodes :
          /\ TakesUnparsableExtras(i)
          /\ doc.nodes[i].extras = Absent
          /\ doc.parent[i] >= 0
          /\ doc.nodes[doc.parent[i]].mesh = None
          /\ CarriesUnparsableExtras(doc.parent[i])

\* the filter the texture should end with for a filter the sampler asks for
StrippedFilter(f) ==
    IF f \in {Absent, "NEAREST", "NEAREST_MIPMAP_NEAREST", "NEAREST_MIPMAP_LINEAR"}
    THEN "NEAREST" ELSE "LINEAR"

\* C12: every texture of an imported model has a minification and a
\* magnification filter that is NEAREST or LINEAR: the non-mipped equivalent
\* of the requested one, the requested one when it is not mipped, NEAREST when
\* none is requested; and its mip levels have been generated.
C12_FiltersAreDeMipmapped ==
    pc = "imported" =>
        /\ Len(textures) = Len(doc.textures)
        /\ \A k \in DOMAIN textures :
              /\ textures[k].min_filter = StrippedFilter(doc.textures[k].min_filter)
              /\ textures[k].mag_filter = StrippedFilter(doc.textures[k].mag_filter)
              /\ {textures[k].min_filter, textures[k].mag_filter} \subseteq {"NEAREST", "LINEAR"}
              /\ textures[k].mipmaps

\* C12 witness: one texture asks for LINEAR_MIPMAP_LINEAR and ends with
\* LINEAR, another asks for LINEAR_MIPMAP_NEAREST and no magnification filter
C12_WitnessMippedSamplers ==
    /\ pc = "imported"
    /\ \E j, k \in DOMAIN textures :
          /\ doc.textures[j].min_filter = "LINEAR_MIPMAP_LINEAR"
          /\ textures[j].min_filter = "LINEAR"
          /\ textures[j].mipmaps
          /\ doc.textures[k].min_filter = "LINEAR_MIPMAP_NEAREST"
          /\ doc.textures[k].mag_filter = Absent
          /\ textures[k].mag_filter = "NEAREST"


\* C15: at every draw call of a frame the skinning flag of the joint block
\* is TRUE exactly when the drawable drawn has a skin, and then slot i holds
\* object_world_transform * joints[i].world_transform() *
\* joints[i].inverse_bind_matrix for every joint i of the skin.
C15_SkinningFlagFollowsTheDrawable ==
    (pc \in {"imported", "panicked"} /\ last.op = "render") =>
        \A k \in DOMAIN last.draws :
            LET skin == drawables[k].skin
            IN  /\ last.draws[k].skinning_enabled = (skin # None)
                /\ skin # None =>
                      \A i \in DOMAIN skins[skin + 1].joints :
                          LET joint == skins[skin + 1].joints[i]
                          IN  /\ (i - 1) \in DOMAIN last.draws[k].joints
                              /\ last.draws[k].joints[i - 1] =
                                    Mul(Mul(last.object_world_transform,
                                            TrueWorld(joint.transform)),
                                        joint.inverse_bind_matrix)

\* C15 witness: a frame with a turned object-world transform draws a
\* skinned drawable and after it one without a skin, the flag going from
\* TRUE to FALSE while the slots keep the skinned drawable's matrices
C15_WitnessSkinnedThenUnskinned ==
    /\ pc = "imported"
    /\ last.op = "render"
    /\ last.object_world_transform = RotZ
    /\ Len(last.draws) = 2
    /\ drawables[1].skin # None
    /\ drawables[2].skin = None
    /\ last.draws[1].skinning_enabled
    /\ ~last.draws[2].skinning_enabled
    /\ DOMAIN last.draws[2].joints = {0, 1}


HasMesh(i) == doc.nodes[i].mesh # None

HasLight(i) == doc.nodes[i].light # Absent

\* C17 as claimed: the drawable list has exactly one entry per reachable
\* node with a mesh, the light list exactly one per reachable node with a
\* light, and a drawable has a skin exactly when its node has one.
C17_OneEntryPerReachableNode ==
    pc = "imported" =>
        \A i \in Reachable :
            /\ HasMesh(i) => Cardinality({k \in DOMAIN drawables : drawables[k].node = i}) = 1
            /\ HasLight(i) => Cardinality({k \in DOMAIN lights : lights[k].node = i}) = 1
            /\ \A k \in DOMAIN drawables :
                  drawables[k].node = i =>
                      (drawables[k].skin # None) = (doc.nodes[i].skin # None)

C13_OneNodeLockAtATime ==
    mutex # <<>> =>
        \A thread \in {"render", "update"} :
            Cardinality({c \in DOMAIN mutex : mutex[c] = thread}) <= 1

\* the local transforms cell c has as a whole: the declared one, or one the
\* update sets
WholeLocals(c) ==
    JointMats \cup
        (IF c = Root THEN {Identity}
         ELSE {LocalOf(i) : i \in {j \in DOMAIN Nodes : Nodes[j] = c}})

\* the world transforms made of whole local transforms only
RECURSIVE WholeWorlds(_)
WholeWorlds(c) ==
    IF transforms[c].parent = None THEN WholeLocals(c)
    ELSE {Mul(w, l) : w \in WholeWorlds(transforms[c].parent), l \in WholeLocals(c)}

\* C14: every world transform the render thread obtains is made of whole
\* local transforms, the one before a write or the one after it, never of
\* one that is half written.
C14_NoTornMatrix ==
    (threads # <<>> /\ threads.render.has_got) =>
        threads.render.got.value \in WholeWorlds(threads.render.got.target)

\* C14 witness: the update is half way through the write of a joint's local
\* transform while the render thread, which has read before, is about to read
\* that joint, and waits
C14_WitnessReaderWaitsForWriter ==
    /\ threads # <<>>
    /\ threads.update.pc = "writing"
    /\ threads.update.step = 1
    /\ transforms[threads.update.target].local_transform
          \notin WholeLocals(threads.update.target)
    /\ threads.render.has_got
    /\ threads.render.stack = <<>>
    /\ threads.render.todo # <<>>
    /\ Head(threads.render.todo) = threads.update.target
    /\ threads.update.target # Root
    /\ Len(threads.render.todo) <= 3


\* the steps of the iteration so far are those of events, updates, render,
\* swap, in this order
RECURSIVE Updates(_)
Updates(n) == IF n = 0 THEN <<>> ELSE <<"update">> \o Updates(n - 1)

IterationOf(n) == <<"events">> \o Updates(n) \o <<"render", "swap">>

\* C19: in every iteration of the main loop the events are handled first,
\* then every update that is due runs, then the render schedule runs once and
\* the buffers are swapped.
C19_UpdatesThenOneRenderThenSwap ==
    host # <<>> =>
        /\ host.log \in {SubSeq(IterationOf(n), 1, k) : n \in {host.planned}, k \in 0..(host.planned + 3)}
        /\ host.pc \in {"render", "swap"} => host.due = 0
        /\ host.pc \in {"update", "save", "check", "render"} => host.log[1] = "events"
        /\ (host.pc = "head" /\ host.log # <<>>) => host.log = IterationOf(host.planned)

\* C19 witness: an iteration in which a key went down has run two updates,
\* the render and the swap
C19_WitnessTwoUpdates ==
    /\ host # <<>>
    /\ host.pc = "head"
    /\ host.log = <<"events", "update", "update", "render", "swap">>
    /\ host.polled > 0
    /\ host.inputs["CamForwards"]

\* C20: after every run of the update schedule last_inputs is inputs, and no
\* press of a key is seen as just pressed by more than one update.
C20_FirstInputSeenOnce ==
    host # <<>> =>
        /\ \A i \in InputNames : host.first_seen[i] <= 1
        /\ (host.pc = "check" /\ host.log # <<>> /\ host.log[Len(host.log)] = "update") =>
              host.last_inputs = host.inputs

\* C20 witness: W is down, two updates have run in this frame, and one of
\* them saw CamForwards as just pressed
C20_WitnessTwoUpdatesOneFirst ==
    /\ host # <<>>
    /\ host.pc = "render"
    /\ host.log = <<"events", "update", "update">>
    /\ host.held = {"W"}
    /\ host.polled = 1
    /\ host.inputs["CamForwards"]
    /\ host.last_inputs["CamForwards"]
    /\ host.first_seen["CamForwards"] = 1


\* C21 as claimed: when no key is down, no input is set.
C21_NoInputWithoutAHeldKey ==
    (host # <<>> /\ host.held = {}) =>
        \A i \in InputNames : ~host.inputs[i]

====
